---- MODULE Spec2Model ----
(***************************************************************************)
(* Model of the realtime voice bridge of src/server.js: the per-call       *)
(* relay between the Twilio media stream (twilioWs) and the OpenAI         *)
(* realtime connection (openaiWs).                                         *)
(*                                                                         *)
(* src/server.js holds two revisions of the bridge:                        *)
(*   - the barge-in bridge  (lines 470-642): turn taking, outQueue,        *)
(*     response.cancel on interruption;          specification Spec        *)
(*   - the pending-queue bridge (lines 672-818): inbound frames are held   *)
(*     in `pending` until the provider is open;  specification SpecPending *)
(*                                                                         *)
(* Every handler is one action.  What a handler transmits is recorded in   *)
(* sentOpenai / sentTwilio (the ws.send calls of the handler that ran      *)
(* last, in order); lastEvent names that handler.  A peer's messages are   *)
(* delivered to a handler while the receiving connection is open.          *)
(***************************************************************************)
EXTENDS Integers, Sequences, FiniteSets, TLC

\* ------------------------------------------------------------- bounds
MaxFrames == 25   \* payload-bearing media frames of one caller turn (25 frames = 500 ms)
MaxDeltas == 2    \* non-empty audio deltas the provider sends in a call
MaxTicks  == 2    \* clock advances observed during a call
QueueSlack == 2   \* frames short of, and beyond, a queue's capacity (SpecQueues)
MaxHttpTicks == 3  \* clock advances observed between HTTP requests (SpecHttp)
MaxRecordings == 1 \* recordings whose analysis succeeds (SpecHttp)
MaxTwoCalls == 1   \* caller frames per turn, and queued deltas, of each of two calls (SpecTwoCalls)

\* -------------------------------------------------- program constants
MAX_OUT_QUEUE == 300
MAX_PENDING   == 200
DEBOUNCE_MS   == 400
MIN_COMMIT_MS == 100
FRAME_MS      == 20
RECORDING_TTL_MS == 7 * 24 * 60 * 60 * 1000
CALLMETA_TTL_MS  == 24 * 60 * 60 * 1000

\* One clock advance; two advances span the debounce window exactly.
TickMs == DEBOUNCE_MS \div 2
\* Date.now() when the call is accepted: epoch milliseconds, far beyond
\* the debounce window (lastSpeechStoppedAt starts at 0).
StartTime == 2 * DEBOUNCE_MS
\* One clock advance between HTTP requests: half the recording TTL, so
\* that two advances age an entry to the TTL exactly and a third beyond
\* it.  The sweep timer (hourly) may fire at every instant the clock shows.
HttpTickMs == RECORDING_TTL_MS \div 2

\* ------------------------------------------------------------- values
Null   == "null"              \* streamSid before / without a start identity
Absent == 0                   \* a missing or empty (falsy) payload / delta
StreamSids == {"MZ1"}         \* identities the telephony peer may assign

ReadyStates == {"NONE", "CONNECTING", "OPEN", "CLOSING", "CLOSED"}

DeltaTypes == {"response.audio.delta", "response.output_audio.delta"}

\* What a peer may send: a tagged JSON object, text that JSON.parse rejects
\* ("malformed"), or the JSON text `null`, which JSON.parse accepts and
\* which has no properties to read ("json-null").

OpenaiTypes ==
    DeltaTypes \cup
    { "error", "input_audio_buffer.speech_started",
      "input_audio_buffer.speech_stopped", "response.created",
      "response.done", "session.updated", "malformed", "json-null" }

TwilioEvents == {"start", "media", "stop", "mark", "malformed", "json-null"}

Directive(type, audio) == [type |-> type, audio |-> audio]

\* The handler that ran, with the media payload or audio delta it was given.
Event(type, payload) == [type |-> type, payload |-> payload]

Media(sid, payload) == [event |-> "media", streamSid |-> sid, payload |-> payload]

\* ------------------------------------------------- the deployment
\* process.env as the routes read it.  TWILIO_AUTH_TOKEN stands for the
\* pair TWILIO_ACCOUNT_SID / TWILIO_AUTH_TOKEN, RESEND_API_KEY for the
\* triple RESEND_API_KEY / EMAIL_TO / EMAIL_FROM, PUBLIC_BASE_URL for the
\* pair PUBLIC_BASE_URL / LANDLINE_NUMBER: each group is read together.
Secret == "s3cret"

FullEnv ==
    [ RECORDING_WEBHOOK_SECRET |-> Secret, TWILIO_AUTH_TOKEN |-> TRUE,
      RESEND_API_KEY |-> TRUE, PUBLIC_BASE_URL |-> TRUE ]

\* The complete deployment and the deployments that lack one setting.
Deployments ==
    { FullEnv,
      [FullEnv EXCEPT !.RECORDING_WEBHOOK_SECRET = Null],
      [FullEnv EXCEPT !.TWILIO_AUTH_TOKEN = FALSE],
      [FullEnv EXCEPT !.RESEND_API_KEY = FALSE],
      [FullEnv EXCEPT !.PUBLIC_BASE_URL = FALSE] }

\* An HTTP handler, continuation or sweep that ran: the request parameter
\* it decided on (a string), the listen token or recording it concerned,
\* the call it concerned, and the response it gave.
Request(route, arg, id, callSid, response) ==
    [route |-> route, arg |-> arg, id |-> id, callSid |-> callSid,
     response |-> response]

VARIABLES
    bridge,                \* the revision of the bridge that serves the call
    OPENAI_KEY,            \* TRUE iff the provider credential is configured
    openaiWs,              \* readyState of the provider connection
    twilioWs,              \* readyState of the telephony connection
    streamSid,
    bufferedMs,
    lastSpeechStoppedAt,
    responseInProgress,
    outQueue,
    openaiReady,           \* pending-queue bridge
    gotAnyAudioDelta,      \* pending-queue bridge
    pending,               \* pending-queue bridge
    now,                   \* Date.now()
    nMedia,                \* pending-queue bridge: payload-bearing media frames received so far
    nDelta,                \* non-empty audio deltas received so far
    sentOpenai,            \* directives transmitted to the provider by the last handler
    sentTwilio,            \* envelopes transmitted to the telephony peer by the last handler
    lastEvent,             \* the handler that ran last and the audio it was given
    cancelSent,            \* TRUE iff a response.cancel has been transmitted in this call
    appendedMs,            \* caller audio transmitted to the provider since the last commit (SpecAppends)
    peer,                  \* the closure state of a second, concurrent call (SpecTwoCalls)
    env,                   \* process.env: the deployment's configuration
    recordingStore,        \* token -> { mp3, createdAt, meta }
    callMetaStore,         \* CallSid -> meta
    inflight,              \* recording-status runs suspended at an await
    nTokens,               \* listen tokens drawn so far
    lastRequest,           \* the HTTP handler (or continuation, or sweep) that ran last
    effects                \* outbound requests started by the handler that ran last

\* The state of the HTTP routes and of the recording pipeline.
httpVars == << env, recordingStore, callMetaStore, inflight, nTokens,
               lastRequest, effects >>

vars == << bridge, OPENAI_KEY, openaiWs, twilioWs, streamSid, bufferedMs,
           lastSpeechStoppedAt, responseInProgress, outQueue, openaiReady,
           gotAnyAudioDelta, pending, now, nMedia, nDelta, sentOpenai, sentTwilio,
           lastEvent, cancelSent, appendedMs, peer, httpVars >>

\* --------------------------------------------------- the call session
\* The closure state of one wss "connection" callback, as a record the
\* handlers transform; a handler starts with nothing transmitted yet.
Session ==
    [ openaiWs |-> openaiWs, twilioWs |-> twilioWs, streamSid |-> streamSid,
      bufferedMs |-> bufferedMs, lastSpeechStoppedAt |-> lastSpeechStoppedAt,
      responseInProgress |-> responseInProgress, outQueue |-> outQueue,
      openaiReady |-> openaiReady, gotAnyAudioDelta |-> gotAnyAudioDelta,
      pending |-> pending,
      sentOpenai |-> << >>, sentTwilio |-> << >> ]

Store(s) ==
    /\ openaiWs' = s.openaiWs
    /\ twilioWs' = s.twilioWs
    /\ streamSid' = s.streamSid
    /\ bufferedMs' = s.bufferedMs
    /\ lastSpeechStoppedAt' = s.lastSpeechStoppedAt
    /\ responseInProgress' = s.responseInProgress
    /\ outQueue' = s.outQueue
    /\ openaiReady' = s.openaiReady
    /\ gotAnyAudioDelta' = s.gotAnyAudioDelta
    /\ pending' = s.pending
    /\ sentOpenai' = s.sentOpenai
    /\ sentTwilio' = s.sentTwilio
    /\ cancelSent' = ( \/ cancelSent
                       \/ \E i \in 1..Len(s.sentOpenai) :
                            s.sentOpenai[i].type = "response.cancel" )

\* ws.close(): starts the closing handshake of a connection that is not
\* yet closing; never raises.
WsClose(readyState) ==
    IF readyState \in {"CONNECTING", "OPEN"} THEN "CLOSING" ELSE readyState

\* A handler reads msg.type / msg.event of a message that is null: the
\* TypeError is caught nowhere, the process ends and with it both
\* connections of the call; nothing was transmitted.
uncaught(s) == [s EXCEPT !.openaiWs = "CLOSED", !.twilioWs = "CLOSED"]

\* -------------------------------------------------- barge-in bridge
\* Mutant: the send without the readyState test.
wsSend_Always(readyState, sent, obj) == Append(sent, obj)

\* wsSend(ws, obj): transmit only on an open connection.
wsSend(readyState, sent, obj) ==
    IF readyState # "OPEN" THEN sent ELSE Append(sent, obj)

\* Mutant: a delta that arrives while no response is in progress is dropped.
sendAudioToTwilio_DropWhenIdle(s, base64Mulaw) ==
    IF base64Mulaw = Absent \/ ~s.responseInProgress THEN s
    ELSE IF s.streamSid = Null
    THEN LET q == Append(s.outQueue, base64Mulaw)
         IN  [s EXCEPT !.outQueue = IF Len(q) > MAX_OUT_QUEUE THEN Tail(q) ELSE q]
    ELSE [s EXCEPT !.sentTwilio =
              wsSend(s.twilioWs, @, Media(s.streamSid, base64Mulaw))]

\* Mutant: the enqueue without `if (outQueue.length > MAX_OUT_QUEUE) outQueue.shift()`.
sendAudioToTwilio_NoEvict(s, base64Mulaw) ==
    IF base64Mulaw = Absent THEN s
    ELSE IF s.streamSid = Null
    THEN [s EXCEPT !.outQueue = Append(@, base64Mulaw)]
    ELSE [s EXCEPT !.sentTwilio =
              wsSend(s.twilioWs, @, Media(s.streamSid, base64Mulaw))]

sendAudioToTwilio(s, base64Mulaw) ==
    IF base64Mulaw = Absent THEN s
    ELSE IF s.streamSid = Null
    THEN LET q == Append(s.outQueue, base64Mulaw)
         IN  [s EXCEPT !.outQueue = IF Len(q) > MAX_OUT_QUEUE THEN Tail(q) ELSE q]
    ELSE [s EXCEPT !.sentTwilio =
              wsSend(s.twilioWs, @, Media(s.streamSid, base64Mulaw))]

clearTwilioAudioQueue(s) == [s EXCEPT !.outQueue = << >>]

\* Mutant: the barge-in discarding the buffered caller audio estimate.
interruptAssistant_ResetsBuffer(s) ==
    LET c == clearTwilioAudioQueue(s)
    IN  [c EXCEPT !.sentOpenai =
                      wsSend(c.openaiWs, @, Directive("response.cancel", Absent)),
                  !.responseInProgress = FALSE,
                  !.bufferedMs = 0]

\* Mutant: the barge-in without `responseInProgress = false`.
interruptAssistant_KeepFlag(s) ==
    LET c == clearTwilioAudioQueue(s)
    IN  [c EXCEPT !.sentOpenai =
                      wsSend(c.openaiWs, @, Directive("response.cancel", Absent))]

\* Mutant: the barge-in without the response.cancel directive.
interruptAssistant_NoCancel(s) ==
    [clearTwilioAudioQueue(s) EXCEPT !.responseInProgress = FALSE]

interruptAssistant(s) ==
    LET c == clearTwilioAudioQueue(s)
    IN  [c EXCEPT !.sentOpenai =
                      wsSend(c.openaiWs, @, Directive("response.cancel", Absent)),
                  !.responseInProgress = FALSE]

\* Mutant: the greeting requested before the session is configured.
onOpen_CreateFirst(s) ==
    LET a == [s EXCEPT !.sentOpenai =
                  wsSend(s.openaiWs, @, Directive("response.create", Absent))]
        b == [a EXCEPT !.sentOpenai =
                  wsSend(a.openaiWs, @, Directive("session.update", Absent))]
    IN  [b EXCEPT !.responseInProgress = TRUE]

\* openaiWs.on("open")
onOpen(s) ==
    LET a == [s EXCEPT !.sentOpenai =
                  wsSend(s.openaiWs, @, Directive("session.update", Absent))]
        b == [a EXCEPT !.sentOpenai =
                  wsSend(a.openaiWs, @, Directive("response.create", Absent))]
    IN  [b EXCEPT !.responseInProgress = TRUE]

\* Mutant: the commit with its two directives exchanged.
commitTurn_CreateFirst(s) ==
    LET b == [s EXCEPT !.sentOpenai =
                 wsSend(s.openaiWs, @, Directive("response.create", Absent))]
        c == [b EXCEPT !.sentOpenai =
                 wsSend(b.openaiWs, @,
                        Directive("input_audio_buffer.commit", Absent))]
    IN  [c EXCEPT !.responseInProgress = TRUE, !.bufferedMs = 0]

\* The commit of the speech_stopped branch: commit, response.create, then
\* the state update.
commitTurn(s) ==
    LET b == [s EXCEPT !.sentOpenai =
                 wsSend(s.openaiWs, @,
                        Directive("input_audio_buffer.commit", Absent))]
        c == [b EXCEPT !.sentOpenai =
                 wsSend(b.openaiWs, @, Directive("response.create", Absent))]
    IN  [c EXCEPT !.responseInProgress = TRUE, !.bufferedMs = 0]

\* Mutant: the branch without `if (responseInProgress) return`.
speechStopped_NoBusyGuard(s, t) ==
    IF t - s.lastSpeechStoppedAt < DEBOUNCE_MS THEN s
    ELSE LET a == [s EXCEPT !.lastSpeechStoppedAt = t]
         IN  IF a.bufferedMs < MIN_COMMIT_MS THEN a ELSE commitTurn(a)

\* Mutant: the branch without `if (bufferedMs < 100) return`.
speechStopped_NoThreshold(s, t) ==
    IF t - s.lastSpeechStoppedAt < DEBOUNCE_MS THEN s
    ELSE LET a == [s EXCEPT !.lastSpeechStoppedAt = t]
         IN  IF a.responseInProgress THEN a ELSE commitTurn(a)

\* Mutant: the branch without `bufferedMs = 0` after the commit.
speechStopped_NoReset(s, t) ==
    IF t - s.lastSpeechStoppedAt < DEBOUNCE_MS THEN s
    ELSE LET a == [s EXCEPT !.lastSpeechStoppedAt = t]
         IN  IF a.responseInProgress THEN a
             ELSE IF a.bufferedMs < MIN_COMMIT_MS THEN a
             ELSE [commitTurn(a) EXCEPT !.bufferedMs = a.bufferedMs]

\* Mutant: the branch without the debounce window.
speechStopped_NoDebounce(s, t) ==
    LET a == [s EXCEPT !.lastSpeechStoppedAt = t]
    IN  IF a.responseInProgress THEN a
        ELSE IF a.bufferedMs < MIN_COMMIT_MS THEN a
        ELSE commitTurn(a)

\* Mutant: the timestamp taken only by an event that commits.
speechStopped_StampOnCommit(s, t) ==
    IF t - s.lastSpeechStoppedAt < DEBOUNCE_MS THEN s
    ELSE IF s.responseInProgress THEN s
    ELSE IF s.bufferedMs < MIN_COMMIT_MS THEN s
    ELSE commitTurn([s EXCEPT !.lastSpeechStoppedAt = t])

\* openaiWs.on("message"), the speech_stopped branch; t is Date.now()
speechStopped(s, t) ==
    IF t - s.lastSpeechStoppedAt < DEBOUNCE_MS THEN s
    ELSE LET a == [s EXCEPT !.lastSpeechStoppedAt = t]
         IN  IF a.responseInProgress THEN a
             ELSE IF a.bufferedMs < MIN_COMMIT_MS THEN a
             ELSE commitTurn(a)

\* Mutant: the branch without `if (responseInProgress)`.
speechStarted_AlwaysInterrupt(s) == interruptAssistant(s)

\* openaiWs.on("message"), the speech_started branch
speechStarted(s) ==
    IF s.responseInProgress THEN interruptAssistant(s) ELSE s

\* Mutant: the error branch tearing the call down.
onOpenaiError_Fatal(s) ==
    [s EXCEPT !.openaiWs = WsClose(@), !.twilioWs = WsClose(@)]

\* openaiWs.on("message"), the error branch: console.log(...); return
onOpenaiError(s) == s

\* openaiWs.on("message"): if (msg.type === "response.created") ...
responseCreated(s) == [s EXCEPT !.responseInProgress = TRUE]

\* Mutant: response.done leaving the flag as it is.
responseDone_NoReset(s) == s

\* openaiWs.on("message"): if (msg.type === "response.done") ...
responseDone(s) == [s EXCEPT !.responseInProgress = FALSE]

\* openaiWs.on("message"); msg = [type, delta], t is Date.now()
onOpenaiMessage(s, msg, t) ==
    IF msg.type = "malformed" THEN s
    ELSE IF msg.type = "json-null" THEN uncaught(s)
    ELSE IF msg.type = "error" THEN onOpenaiError(s)
    ELSE LET s1 == IF msg.type = "input_audio_buffer.speech_started"
                   THEN speechStarted(s) ELSE s
             audioDelta == IF msg.type \in DeltaTypes THEN msg.delta ELSE Absent
             s2 == IF audioDelta # Absent
                   THEN sendAudioToTwilio(s1, audioDelta) ELSE s1
             s3 == IF msg.type = "response.created"
                   THEN responseCreated(s2) ELSE s2
             s4 == IF msg.type = "response.done"
                   THEN responseDone(s3) ELSE s3
         IN  IF msg.type = "input_audio_buffer.speech_stopped"
             THEN speechStopped(s4, t) ELSE s4

\* Mutant: the drain loop taking the newest frame first (pop for shift).
drainOutQueue_Lifo(s) ==
    LET q == s.outQueue
        frames == [ i \in 1..Len(q) |-> Media(s.streamSid, q[Len(q) + 1 - i]) ]
    IN  [s EXCEPT !.outQueue = << >>,
                  !.sentTwilio = IF s.twilioWs = "OPEN" THEN @ \o frames ELSE @]

\* the drain loop of the start branch: while (outQueue.length) wsSend(...
\* outQueue.shift() ...).  The loop body changes neither twilioWs nor
\* streamSid, so its iterations are written as one step: the i-th iteration
\* hands the i-th queued frame to wsSend, which transmits it when the
\* telephony socket is open and discards it otherwise; the queue ends empty.
drainOutQueue(s) ==
    LET q == s.outQueue
        frames == [ i \in 1..Len(q) |-> Media(s.streamSid, q[i]) ]
    IN  [s EXCEPT !.outQueue = << >>,
                  !.sentTwilio = IF s.twilioWs = "OPEN" THEN @ \o frames ELSE @]

\* Mutant: the start branch without its drain loop.
onStart_NoDrain(s, sid) == [s EXCEPT !.streamSid = sid]

\* twilioWs.on("message"), the start branch
onStart(s, sid) == drainOutQueue([s EXCEPT !.streamSid = sid])

\* Mutant: the media branch without `if (!payload) return`.
onMedia_NoPayloadCheck(s, payload) ==
    LET a == IF s.responseInProgress THEN interruptAssistant(s) ELSE s
        b == [a EXCEPT !.sentOpenai =
                 wsSend(a.openaiWs, @,
                        Directive("input_audio_buffer.append", payload))]
    IN  [b EXCEPT !.bufferedMs = @ + FRAME_MS]

\* Mutant: the media branch without `if (responseInProgress)`.
onMedia_AlwaysInterrupt(s, payload) ==
    IF payload = Absent THEN s
    ELSE LET a == interruptAssistant(s)
             b == [a EXCEPT !.sentOpenai =
                      wsSend(a.openaiWs, @,
                             Directive("input_audio_buffer.append", payload))]
         IN  [b EXCEPT !.bufferedMs = @ + FRAME_MS]

\* twilioWs.on("message"), the media branch
onMedia(s, payload) ==
    IF payload = Absent THEN s
    ELSE LET a == IF s.responseInProgress THEN interruptAssistant(s) ELSE s
             b == [a EXCEPT !.sentOpenai =
                      wsSend(a.openaiWs, @,
                             Directive("input_audio_buffer.append", payload))]
         IN  [b EXCEPT !.bufferedMs = @ + FRAME_MS]

\* Mutant: the teardown without `try { openaiWs.close(); } catch {}`.
cleanup_KeepProvider(s) == [s EXCEPT !.twilioWs = WsClose(@)]

\* const cleanup, also the body of the stop branch
cleanup(s) ==
    [s EXCEPT !.openaiWs = WsClose(@), !.twilioWs = WsClose(@)]

\* twilioWs.on("message"); msg = [event, streamSid, payload]
onTwilioMessage(s, msg) ==
    IF msg.event = "malformed" THEN s
    ELSE IF msg.event = "json-null" THEN uncaught(s)
    ELSE IF msg.event = "start" THEN onStart(s, msg.streamSid)
    ELSE IF msg.event = "media" THEN onMedia(s, msg.payload)
    ELSE IF msg.event = "stop" THEN cleanup(s)
    ELSE s

\* ----------------------------------------------- pending-queue bridge
\* safeSend(ws, obj): transmit only on an open connection.
safeSend(readyState, sent, obj) ==
    IF readyState # "OPEN" THEN sent ELSE Append(sent, obj)

\* while (pending.length) safeSend(openaiWs, pending.shift())
\* (the loop leaves openaiWs alone: every queued directive is transmitted,
\* oldest first, when the provider socket is open, and discarded otherwise)
drainPending(s) ==
    [s EXCEPT !.pending = << >>,
              !.sentOpenai = IF s.openaiWs = "OPEN" THEN @ \o s.pending ELSE @]

\* openaiWs.on("open") of the pending-queue bridge
pendingOnOpen(s) ==
    LET a == [s EXCEPT !.openaiReady = TRUE]
        b == [a EXCEPT !.sentOpenai =
                  safeSend(a.openaiWs, @, Directive("session.update", Absent))]
        c == drainPending(b)
    IN  [c EXCEPT !.sentOpenai =
              safeSend(c.openaiWs, @, Directive("response.create", Absent))]

\* openaiWs.on("message") of the pending-queue bridge
pendingOnOpenaiMessage(s, msg) ==
    IF msg.type = "malformed" THEN s
    ELSE IF msg.type = "json-null" THEN uncaught(s)
    ELSE IF msg.type = "error" THEN s
    ELSE LET audioDelta == IF msg.type \in DeltaTypes THEN msg.delta ELSE Absent
         IN  IF audioDelta # Absent /\ s.streamSid # Null
             THEN [s EXCEPT !.gotAnyAudioDelta = TRUE,
                            !.sentTwilio =
                                safeSend(s.twilioWs, @, Media(s.streamSid, audioDelta))]
             ELSE s

\* twilioWs.on("message") of the pending-queue bridge, the media branch
pendingOnMedia(s, payload) ==
    IF payload = Absent THEN s
    ELSE LET evt == Directive("input_audio_buffer.append", payload)
         IN  IF ~s.openaiReady
             THEN LET q == Append(s.pending, evt)
                  IN  [s EXCEPT !.pending =
                          IF Len(q) > MAX_PENDING THEN Tail(q) ELSE q]
             ELSE [s EXCEPT !.sentOpenai = safeSend(s.openaiWs, @, evt)]

\* twilioWs.on("message") of the pending-queue bridge
pendingOnTwilioMessage(s, msg) ==
    IF msg.event = "malformed" THEN s
    ELSE IF msg.event = "json-null" THEN uncaught(s)
    ELSE IF msg.event = "start" THEN [s EXCEPT !.streamSid = msg.streamSid]
    ELSE IF msg.event = "media" THEN pendingOnMedia(s, msg.payload)
    ELSE IF msg.event = "stop" THEN cleanup(s)
    ELSE s

\* ------------------------------------------------------------ actions
\* The HTTP routes of a process that has served no request yet, in the
\* complete deployment.
HttpIdle ==
    /\ env = FullEnv
    /\ recordingStore = {}
    /\ callMetaStore = {}
    /\ inflight = {}
    /\ nTokens = 0
    /\ lastRequest = Request("none", Null, 0, Null, Null)
    /\ effects = << >>

\* wss.on("connection"): the state when the connection callback returns.
Init ==
    /\ bridge = "barge-in"
    /\ OPENAI_KEY \in BOOLEAN
    /\ openaiWs = IF OPENAI_KEY THEN "CONNECTING" ELSE "NONE"
    /\ twilioWs = IF OPENAI_KEY THEN "OPEN" ELSE "CLOSING"
    /\ streamSid = Null
    /\ bufferedMs = 0
    /\ lastSpeechStoppedAt = 0
    /\ responseInProgress = FALSE
    /\ outQueue = << >>
    /\ openaiReady = FALSE
    /\ gotAnyAudioDelta = FALSE
    /\ pending = << >>
    /\ now = StartTime
    /\ nMedia = 0
    /\ nDelta = 0
    /\ sentOpenai = << >>
    /\ sentTwilio = << >>
    /\ lastEvent = Event("connection", Absent)
    /\ cancelSent = FALSE
    /\ appendedMs = 0
    /\ peer = Null
    /\ HttpIdle

\* The messages the provider may deliver next.
OpenaiMessages ==
    { [type |-> ty, delta |-> d] :
        ty \in OpenaiTypes,
        d \in {Absent} \cup (IF nDelta < MaxDeltas THEN {nDelta + 1} ELSE {}) }

\* The messages the telephony peer may deliver next.  A media payload is
\* named by its position among the frames buffered since the last commit;
\* the caller's audio is bounded by MaxFrames frames per turn.
TwilioMessages ==
    { [event |-> ev, streamSid |-> sid, payload |-> p] :
        ev \in TwilioEvents,
        sid \in {Null} \cup StreamSids,
        p \in {Absent} \cup (IF bufferedMs < MaxFrames * FRAME_MS
                            THEN {bufferedMs \div FRAME_MS + 1} ELSE {}) }

OpenaiOpen ==
    /\ OPENAI_KEY
    /\ openaiWs = "CONNECTING"
    /\ Store(onOpen([Session EXCEPT !.openaiWs = "OPEN"]))
    /\ lastEvent' = Event("open", Absent)
    /\ UNCHANGED << httpVars, appendedMs, peer, bridge, OPENAI_KEY, now, nMedia, nDelta >>

OpenaiMessage ==
    /\ OPENAI_KEY
    /\ openaiWs = "OPEN"
    /\ \E msg \in OpenaiMessages :
         /\ msg.delta # Absent => msg.type \in DeltaTypes
         /\ Store(onOpenaiMessage(Session, msg, now))
         /\ nDelta' = IF msg.delta # Absent THEN nDelta + 1 ELSE nDelta
         /\ lastEvent' = Event(msg.type, msg.delta)
    /\ UNCHANGED << httpVars, appendedMs, peer, bridge, OPENAI_KEY, now, nMedia >>

\* openaiWs.on("close") / openaiWs.on("error"): the transport ended; the
\* handlers only log.
OpenaiClose ==
    /\ OPENAI_KEY
    /\ openaiWs \in {"CONNECTING", "OPEN", "CLOSING"}
    /\ Store([Session EXCEPT !.openaiWs = "CLOSED"])
    /\ lastEvent' = Event("openai.close", Absent)
    /\ UNCHANGED << httpVars, appendedMs, peer, bridge, OPENAI_KEY, now, nMedia, nDelta >>

TwilioMessage ==
    /\ OPENAI_KEY
    /\ twilioWs = "OPEN"
    /\ \E msg \in TwilioMessages :
         /\ msg.streamSid # Null => msg.event = "start"
         /\ msg.payload # Absent => msg.event = "media"
         /\ Store(onTwilioMessage(Session, msg))
         /\ lastEvent' = Event(msg.event, msg.payload)
    /\ UNCHANGED << httpVars, appendedMs, peer, bridge, OPENAI_KEY, now, nMedia, nDelta >>

\* twilioWs.on("error", cleanup): the connection failed and is closing.
TwilioError ==
    /\ OPENAI_KEY
    /\ twilioWs = "OPEN"
    /\ Store(cleanup([Session EXCEPT !.twilioWs = "CLOSING"]))
    /\ lastEvent' = Event("twilio.error", Absent)
    /\ UNCHANGED << httpVars, appendedMs, peer, bridge, OPENAI_KEY, now, nMedia, nDelta >>

\* twilioWs.on("close", cleanup): the connection is closed; without the
\* credential no handler was installed.
TwilioClose ==
    /\ twilioWs \in {"OPEN", "CLOSING"}
    /\ Store(IF OPENAI_KEY
             THEN cleanup([Session EXCEPT !.twilioWs = "CLOSED"])
             ELSE [Session EXCEPT !.twilioWs = "CLOSED"])
    /\ lastEvent' = Event("twilio.close", Absent)
    /\ UNCHANGED << httpVars, appendedMs, peer, bridge, OPENAI_KEY, now, nMedia, nDelta >>

\* Time passes between two events.
Tick ==
    /\ now < StartTime + MaxTicks * TickMs
    /\ now' = now + TickMs
    /\ UNCHANGED << httpVars, appendedMs, peer, cancelSent,
                    bridge, OPENAI_KEY, openaiWs, twilioWs, streamSid, bufferedMs,
                    lastSpeechStoppedAt, responseInProgress, outQueue,
                    openaiReady, gotAnyAudioDelta, pending, nMedia, nDelta,
                    sentOpenai, sentTwilio, lastEvent >>

Next ==
    \/ OpenaiOpen
    \/ OpenaiMessage
    \/ OpenaiClose
    \/ TwilioMessage
    \/ TwilioError
    \/ TwilioClose
    \/ Tick

Spec == Init /\ [][Next]_vars

\* ------------------------------------- actions, pending-queue bridge
\* wss.on("connection") of the pending-queue bridge: the provider
\* connection is created whether or not the credential is configured.
InitPending ==
    /\ bridge = "pending-queue"
    /\ OPENAI_KEY \in BOOLEAN
    /\ openaiWs = "CONNECTING"
    /\ twilioWs = "OPEN"
    /\ streamSid = Null
    /\ bufferedMs = 0
    /\ lastSpeechStoppedAt = 0
    /\ responseInProgress = FALSE
    /\ outQueue = << >>
    /\ openaiReady = FALSE
    /\ gotAnyAudioDelta = FALSE
    /\ pending = << >>
    /\ now = StartTime
    /\ nMedia = 0
    /\ nDelta = 0
    /\ sentOpenai = << >>
    /\ sentTwilio = << >>
    /\ lastEvent = Event("connection", Absent)
    /\ cancelSent = FALSE
    /\ appendedMs = 0
    /\ peer = Null
    /\ HttpIdle

\* The media frames are numbered in arrival order.
PendingTwilioMessages ==
    { [event |-> ev, streamSid |-> sid, payload |-> p] :
        ev \in TwilioEvents,
        sid \in {Null} \cup StreamSids,
        p \in {Absent} \cup (IF nMedia < MaxFrames THEN {nMedia + 1} ELSE {}) }

\* The handshake completes only with a credential the provider accepts.
PendingOpenaiOpen ==
    /\ OPENAI_KEY
    /\ openaiWs = "CONNECTING"
    /\ Store(pendingOnOpen([Session EXCEPT !.openaiWs = "OPEN"]))
    /\ lastEvent' = Event("open", Absent)
    /\ UNCHANGED << httpVars, appendedMs, peer, bridge, OPENAI_KEY, now, nMedia, nDelta >>

PendingOpenaiMessage ==
    /\ openaiWs = "OPEN"
    /\ \E msg \in OpenaiMessages :
         /\ msg.delta # Absent => msg.type \in DeltaTypes
         /\ Store(pendingOnOpenaiMessage(Session, msg))
         /\ nDelta' = IF msg.delta # Absent THEN nDelta + 1 ELSE nDelta
         /\ lastEvent' = Event(msg.type, msg.delta)
    /\ UNCHANGED << httpVars, appendedMs, peer, bridge, OPENAI_KEY, now, nMedia >>

PendingOpenaiClose ==
    /\ openaiWs \in {"CONNECTING", "OPEN", "CLOSING"}
    /\ Store([Session EXCEPT !.openaiWs = "CLOSED"])
    /\ lastEvent' = Event("openai.close", Absent)
    /\ UNCHANGED << httpVars, appendedMs, peer, bridge, OPENAI_KEY, now, nMedia, nDelta >>

PendingTwilioMessage ==
    /\ twilioWs = "OPEN"
    /\ \E msg \in PendingTwilioMessages :
         /\ msg.streamSid # Null => msg.event = "start"
         /\ msg.payload # Absent => msg.event = "media"
         /\ Store(pendingOnTwilioMessage(Session, msg))
         /\ nMedia' = IF msg.payload # Absent THEN nMedia + 1 ELSE nMedia
         /\ lastEvent' = Event(msg.event, msg.payload)
    /\ UNCHANGED << httpVars, appendedMs, peer, bridge, OPENAI_KEY, now, nDelta >>

PendingTwilioError ==
    /\ twilioWs = "OPEN"
    /\ Store(cleanup([Session EXCEPT !.twilioWs = "CLOSING"]))
    /\ lastEvent' = Event("twilio.error", Absent)
    /\ UNCHANGED << httpVars, appendedMs, peer, bridge, OPENAI_KEY, now, nMedia, nDelta >>

PendingTwilioClose ==
    /\ twilioWs \in {"OPEN", "CLOSING"}
    /\ Store(cleanup([Session EXCEPT !.twilioWs = "CLOSED"]))
    /\ lastEvent' = Event("twilio.close", Absent)
    /\ UNCHANGED << httpVars, appendedMs, peer, bridge, OPENAI_KEY, now, nMedia, nDelta >>

NextPending ==
    \/ PendingOpenaiOpen
    \/ PendingOpenaiMessage
    \/ PendingOpenaiClose
    \/ PendingTwilioMessage
    \/ PendingTwilioError
    \/ PendingTwilioClose

SpecPending == InitPending /\ [][NextPending]_vars

\* ------------------------------------ the two queues at their capacity
\* A call whose queue is about to fill.  Barge-in bridge: the provider
\* opened, greeted, and has sent k audio deltas before the telephony start
\* event.  Pending-queue bridge: the caller has sent k media frames before
\* the provider opened.  k is within QueueSlack of the queue's capacity.
InitQueues ==
    /\ bridge \in {"barge-in", "pending-queue"}
    /\ cancelSent = FALSE
    /\ appendedMs = 0
    /\ peer = Null
    /\ HttpIdle
    /\ OPENAI_KEY = TRUE
    /\ twilioWs = "OPEN"
    /\ streamSid = Null
    /\ bufferedMs = 0
    /\ lastSpeechStoppedAt = 0
    /\ openaiReady = FALSE
    /\ gotAnyAudioDelta = FALSE
    /\ now = StartTime
    /\ sentOpenai = << >>
    /\ sentTwilio = << >>
    /\ IF bridge = "barge-in"
       THEN /\ openaiWs = "OPEN"
            /\ responseInProgress = TRUE
            /\ nDelta \in (MAX_OUT_QUEUE - QueueSlack)..MAX_OUT_QUEUE
            /\ outQueue = [ i \in 1..nDelta |-> i ]
            /\ nMedia = 0
            /\ pending = << >>
            /\ lastEvent = Event("response.audio.delta", nDelta)
       ELSE /\ openaiWs = "CONNECTING"
            /\ responseInProgress = FALSE
            /\ nMedia \in (MAX_PENDING - QueueSlack)..MAX_PENDING
            /\ pending = [ i \in 1..nMedia |->
                             Directive("input_audio_buffer.append", i) ]
            /\ nDelta = 0
            /\ outQueue = << >>
            /\ lastEvent = Event("media", nMedia)

\* The provider's next message to the barge-in bridge; deltas arrive until
\* QueueSlack of them are beyond the capacity of outQueue.
QueueOpenaiMessages ==
    { [type |-> ty, delta |-> d] :
        ty \in OpenaiTypes,
        d \in {Absent} \cup (IF nDelta < MAX_OUT_QUEUE + QueueSlack
                             THEN {nDelta + 1} ELSE {}) }

\* The telephony peer's next message to the barge-in bridge.
QueueTwilioMessages ==
    { [event |-> ev, streamSid |-> sid, payload |-> p] :
        ev \in TwilioEvents,
        sid \in {Null} \cup StreamSids,
        p \in {Absent} \cup (IF bufferedMs < QueueSlack * FRAME_MS
                             THEN {bufferedMs \div FRAME_MS + 1} ELSE {}) }

\* The telephony peer's next message to the pending-queue bridge; frames
\* arrive until QueueSlack of them are beyond the capacity of pending.
QueuePendingTwilioMessages ==
    { [event |-> ev, streamSid |-> sid, payload |-> p] :
        ev \in TwilioEvents,
        sid \in {Null} \cup StreamSids,
        p \in {Absent} \cup (IF nMedia < MAX_PENDING + QueueSlack
                             THEN {nMedia + 1} ELSE {}) }

QueueOpenaiMessage ==
    /\ bridge = "barge-in"
    /\ openaiWs = "OPEN"
    /\ \E msg \in QueueOpenaiMessages :
         /\ msg.delta # Absent => msg.type \in DeltaTypes
         /\ Store(onOpenaiMessage(Session, msg, now))
         /\ nDelta' = IF msg.delta # Absent THEN nDelta + 1 ELSE nDelta
         /\ lastEvent' = Event(msg.type, msg.delta)
    /\ UNCHANGED << httpVars, appendedMs, peer, bridge, OPENAI_KEY, now, nMedia >>

QueueTwilioMessage ==
    /\ bridge = "barge-in"
    /\ twilioWs = "OPEN"
    /\ \E msg \in QueueTwilioMessages :
         /\ msg.streamSid # Null => msg.event = "start"
         /\ msg.payload # Absent => msg.event = "media"
         /\ Store(onTwilioMessage(Session, msg))
         /\ lastEvent' = Event(msg.event, msg.payload)
    /\ UNCHANGED << httpVars, appendedMs, peer, bridge, OPENAI_KEY, now, nMedia, nDelta >>

QueuePendingTwilioMessage ==
    /\ bridge = "pending-queue"
    /\ twilioWs = "OPEN"
    /\ \E msg \in QueuePendingTwilioMessages :
         /\ msg.streamSid # Null => msg.event = "start"
         /\ msg.payload # Absent => msg.event = "media"
         /\ Store(pendingOnTwilioMessage(Session, msg))
         /\ nMedia' = IF msg.payload # Absent THEN nMedia + 1 ELSE nMedia
         /\ lastEvent' = Event(msg.event, msg.payload)
    /\ UNCHANGED << httpVars, appendedMs, peer, bridge, OPENAI_KEY, now, nDelta >>

QueuePendingOpenaiOpen ==
    /\ bridge = "pending-queue"
    /\ PendingOpenaiOpen

NextQueues ==
    \/ QueueOpenaiMessage
    \/ QueueTwilioMessage
    \/ QueuePendingTwilioMessage
    \/ QueuePendingOpenaiOpen

SpecQueues == InitQueues /\ [][NextQueues]_vars

\* ------------------------------------------------ two concurrent calls
\* wss.on("connection") runs once per media-stream connection: the handlers
\* it registers close over the variables of that run.  The first call's
\* closure is the module's variables, the second call's is peer;
\* lastEvent names the call whose handler ran last.

\* The second call's closure, with nothing transmitted yet.
PeerSession == [peer EXCEPT !.sentOpenai = << >>, !.sentTwilio = << >>]

Calls == << Session, PeerSession >>

\* A handler of call k ran and left `result` in the closure of its call.
deliver(calls, k, result) == [calls EXCEPT ![k] = result]

\* The uncaught exception of a handler ends the process, and with it the
\* connections of every call it serves.
processExit(calls) == [ c \in DOMAIN calls |-> uncaught(calls[c]) ]

InitTwoCalls ==
    /\ bridge = "barge-in"
    /\ OPENAI_KEY = TRUE
    /\ openaiWs = "CONNECTING"
    /\ twilioWs = "OPEN"
    /\ streamSid = Null
    /\ bufferedMs = 0
    /\ lastSpeechStoppedAt = 0
    /\ responseInProgress = FALSE
    /\ outQueue = << >>
    /\ openaiReady = FALSE
    /\ gotAnyAudioDelta = FALSE
    /\ pending = << >>
    /\ now = StartTime
    /\ nMedia = 0
    /\ nDelta = 0
    /\ sentOpenai = << >>
    /\ sentTwilio = << >>
    /\ lastEvent = Event("call", 1)
    /\ cancelSent = FALSE
    /\ appendedMs = 0
    /\ peer = Session
    /\ HttpIdle

\* The closures after a handler of call k ran; fatal: it threw.
Delivered(k, result, fatal) ==
    LET calls == IF fatal THEN processExit(deliver(Calls, k, result))
                 ELSE deliver(Calls, k, result)
    IN  /\ Store(calls[1])
        /\ peer' = calls[2]
        /\ lastEvent' = Event(IF fatal THEN "exit" ELSE "call", k)
        /\ UNCHANGED << httpVars, appendedMs, bridge, OPENAI_KEY, now, nMedia, nDelta >>

\* The provider's next message to a call: a delta is named by the place
\* it would take in the outbound queue.
TwoOpenaiMessages(s) ==
    { [type |-> ty, delta |-> d] :
        ty \in OpenaiTypes,
        d \in {Absent} \cup (IF Len(s.outQueue) < MaxTwoCalls
                             THEN {Len(s.outQueue) + 1} ELSE {}) }

TwoTwilioMessages(s) ==
    { [event |-> ev, streamSid |-> sid, payload |-> p] :
        ev \in TwilioEvents,
        sid \in {Null} \cup StreamSids,
        p \in {Absent} \cup (IF s.bufferedMs < MaxTwoCalls * FRAME_MS
                             THEN {s.bufferedMs \div FRAME_MS + 1} ELSE {}) }

TwoOpenaiOpen ==
    \E k \in DOMAIN Calls :
        /\ Calls[k].openaiWs = "CONNECTING"
        /\ Delivered(k, onOpen([Calls[k] EXCEPT !.openaiWs = "OPEN"]), FALSE)

TwoOpenaiMessage ==
    \E k \in DOMAIN Calls :
        /\ Calls[k].openaiWs = "OPEN"
        /\ \E msg \in TwoOpenaiMessages(Calls[k]) :
             /\ msg.delta # Absent => msg.type \in DeltaTypes
             /\ Delivered(k, onOpenaiMessage(Calls[k], msg, now),
                          msg.type = "json-null")

TwoOpenaiClose ==
    \E k \in DOMAIN Calls :
        /\ Calls[k].openaiWs \in {"CONNECTING", "OPEN", "CLOSING"}
        /\ Delivered(k, [Calls[k] EXCEPT !.openaiWs = "CLOSED"], FALSE)

TwoTwilioMessage ==
    \E k \in DOMAIN Calls :
        /\ Calls[k].twilioWs = "OPEN"
        /\ \E msg \in TwoTwilioMessages(Calls[k]) :
             /\ msg.streamSid # Null => msg.event = "start"
             /\ msg.payload # Absent => msg.event = "media"
             /\ Delivered(k, onTwilioMessage(Calls[k], msg),
                          msg.event = "json-null")

TwoTwilioClose ==
    \E k \in DOMAIN Calls :
        /\ Calls[k].twilioWs \in {"OPEN", "CLOSING"}
        /\ Delivered(k, cleanup([Calls[k] EXCEPT !.twilioWs = "CLOSED"]), FALSE)

NextTwoCalls ==
    \/ TwoOpenaiOpen
    \/ TwoOpenaiMessage
    \/ TwoOpenaiClose
    \/ TwoTwilioMessage
    \/ TwoTwilioClose

SpecTwoCalls == InitTwoCalls /\ [][NextTwoCalls]_vars

\* ------------------------------------ HTTP routes, recording pipeline
CallSids == {"CA1"}
RecordingSids == 1..MaxRecordings

\* The module-level state the routes share, as a record the handlers
\* transform; a handler starts with no outbound request and no response.
Http ==
    [ env |-> env, OPENAI_KEY |-> OPENAI_KEY,
      recordingStore |-> recordingStore, callMetaStore |-> callMetaStore,
      inflight |-> inflight, nTokens |-> nTokens,
      effects |-> << >>, response |-> Null ]

StoreHttp(h) ==
    /\ recordingStore' = h.recordingStore
    /\ callMetaStore' = h.callMetaStore
    /\ inflight' = h.inflight
    /\ nTokens' = h.nTokens
    /\ effects' = h.effects

\* Map.has / Map.get / Map.set / Map.delete of callMetaStore, a set of
\* metas with at most one meta per callSid.
metaHas(store, callSid) == \E m \in store : m.callSid = callSid
metaGet(store, callSid) == CHOOSE m \in store : m.callSid = callSid
metaSet(store, meta) ==
    { m \in store : m.callSid # meta.callSid } \cup { meta }

\* Mutant: the sweep applying the call-meta TTL to the recordings.
sweep_OneTtl(h, t) ==
    [h EXCEPT
       !.recordingStore =
           { item \in @ : ~(t - item.createdAt > CALLMETA_TTL_MS) },
       !.callMetaStore =
           { meta \in @ : ~( \/ meta.receivedAtMs = Absent
                             \/ t - meta.receivedAtMs > CALLMETA_TTL_MS ) }]

\* The body of the setInterval callback; t is Date.now().
sweep(h, t) ==
    [h EXCEPT
       !.recordingStore =
           { item \in @ : ~(t - item.createdAt > RECORDING_TTL_MS) },
       !.callMetaStore =
           { meta \in @ : ~( \/ meta.receivedAtMs = Absent
                             \/ t - meta.receivedAtMs > CALLMETA_TTL_MS ) }]

\* app.get("/listen/:token")
listen(h, token) ==
    IF ~\E item \in h.recordingStore : item.token = token
    THEN [h EXCEPT !.response = "404"]
    ELSE [h EXCEPT !.response = "audio/mpeg"]

\* app.post("/voice"); t is Date.now()
voice(h, callSid, t) ==
    IF ~h.env.PUBLIC_BASE_URL THEN [h EXCEPT !.response = "500"]
    ELSE IF h.env.RECORDING_WEBHOOK_SECRET = Null
    THEN [h EXCEPT !.response = "500"]
    ELSE LET a == IF callSid # Null
                  THEN [h EXCEPT !.callMetaStore =
                           metaSet(@, [callSid |-> callSid,
                                       receivedAtMs |-> t,
                                       answeredType |-> "AI"])]
                  ELSE h
         IN  [a EXCEPT !.response = "dial"]

\* Mutant: the route without the hang-up for an answered landline.
dialResult_AlwaysStream(h, callSid, dialStatus) ==
    LET a == IF callSid # Null /\ metaHas(h.callMetaStore, callSid)
             THEN LET meta == metaGet(h.callMetaStore, callSid)
                  IN  [h EXCEPT !.callMetaStore =
                          metaSet(@, IF dialStatus = "completed"
                                     THEN [meta EXCEPT !.answeredType = "Answered"]
                                     ELSE meta)]
             ELSE h
    IN  [a EXCEPT !.response = "stream"]

\* app.post("/dial-result")
dialResult(h, callSid, dialStatus) ==
    LET a == IF callSid # Null /\ metaHas(h.callMetaStore, callSid)
             THEN LET meta == metaGet(h.callMetaStore, callSid)
                  IN  [h EXCEPT !.callMetaStore =
                          metaSet(@, IF dialStatus = "completed"
                                     THEN [meta EXCEPT !.answeredType = "Answered"]
                                     ELSE meta)]
             ELSE h
    IN  IF dialStatus = "completed"
        THEN [a EXCEPT !.response = "hangup"]
        ELSE [a EXCEPT !.response = "stream"]

\* Mutant: the route without the secret check.
recordingStatus_NoSecretCheck(h, req) ==
    LET r == [h EXCEPT !.response = "200"]
    IN  IF req.RecordingStatus # "completed" THEN r
        ELSE IF req.RecordingSid = Absent THEN r
        ELSE IF ~h.env.TWILIO_AUTH_TOKEN THEN r
        ELSE IF ~h.OPENAI_KEY THEN r
        ELSE [r EXCEPT
                !.effects = Append(@, "download"),
                !.inflight = @ \cup { [RecordingSid |-> req.RecordingSid,
                                       CallSid |-> req.CallSid,
                                       pc |-> "analysis"] }]

\* app.post("/recording-status") up to its first await: the response, the
\* secret and payload checks, then the download request.
recordingStatus(h, req) ==
    LET r == [h EXCEPT !.response = "200"]
    IN  IF \/ h.env.RECORDING_WEBHOOK_SECRET = Null
           \/ req.secret # h.env.RECORDING_WEBHOOK_SECRET
        THEN r
        ELSE IF req.RecordingStatus # "completed" THEN r
        ELSE IF req.RecordingSid = Absent THEN r
        ELSE IF ~h.env.TWILIO_AUTH_TOKEN THEN r
        ELSE IF ~h.OPENAI_KEY THEN r
        ELSE [r EXCEPT
                !.effects = Append(@, "download"),
                !.inflight = @ \cup { [RecordingSid |-> req.RecordingSid,
                                       CallSid |-> req.CallSid,
                                       pc |-> "analysis"] }]

\* emailResults up to its await
emailResults(h, run) ==
    IF ~h.env.RESEND_API_KEY
    THEN [h EXCEPT !.inflight = @ \ {run}]
    ELSE [h EXCEPT !.effects = Append(@, "email"),
                   !.inflight = (@ \ {run}) \cup {[run EXCEPT !.pc = "email"]}]

\* Mutant: the classification stored without `if (answeredType !== "Answered")`.
recordingAnalysed_AlwaysClassify(h, run, result, t) ==
    IF result = "download-failed"
    THEN [h EXCEPT !.inflight = @ \ {run}]
    ELSE IF result = "transcribe-failed"
    THEN [h EXCEPT !.inflight = @ \ {run},
                   !.effects = Append(@, "transcribe")]
    ELSE LET a == [h EXCEPT !.effects = @ \o << "transcribe", "summarize", "extract" >>]
             known == metaHas(a.callMetaStore, run.CallSid)
             callMeta == IF known THEN metaGet(a.callMetaStore, run.CallSid)
                         ELSE [callSid |-> run.CallSid,
                               receivedAtMs |-> Absent,
                               answeredType |-> "AI"]
             b == [a EXCEPT !.callMetaStore =
                      metaSet(@, [callMeta EXCEPT !.answeredType =
                                     IF result = "Message"
                                     THEN "Message" ELSE "AI"])]
             c == [b EXCEPT !.nTokens = @ + 1,
                            !.recordingStore =
                                @ \cup { [token |-> b.nTokens + 1,
                                          createdAt |-> t] }]
         IN  emailResults(c, run)

\* app.post("/recording-status") from the download's completion to the
\* await of emailResults.  The download, the transcription, the summary
\* and the name extraction touch no shared state, so their four awaits are
\* one step; result is the await that threw, or the classification
\* outcome.  t is Date.now().
recordingAnalysed(h, run, result, t) ==
    IF result = "download-failed"
    THEN [h EXCEPT !.inflight = @ \ {run}]
    ELSE IF result = "transcribe-failed"
    THEN [h EXCEPT !.inflight = @ \ {run},
                   !.effects = Append(@, "transcribe")]
    ELSE LET a == [h EXCEPT !.effects = @ \o << "transcribe", "summarize", "extract" >>]
             known == metaHas(a.callMetaStore, run.CallSid)
             callMeta == IF known THEN metaGet(a.callMetaStore, run.CallSid)
                         ELSE [callSid |-> run.CallSid,
                               receivedAtMs |-> Absent,
                               answeredType |-> "AI"]
             b == IF callMeta.answeredType # "Answered"
                  THEN [a EXCEPT !.callMetaStore =
                           metaSet(@, [callMeta EXCEPT !.answeredType =
                                          IF result = "Message"
                                          THEN "Message" ELSE "AI"])]
                  ELSE a
             c == [b EXCEPT !.nTokens = @ + 1,
                            !.recordingStore =
                                @ \cup { [token |-> b.nTokens + 1,
                                          createdAt |-> t] }]
         IN  emailResults(c, run)

\* The continuation after the email request: the outcome is only logged.
emailDone(h, run) == [h EXCEPT !.inflight = @ \ {run}]

\* The bridge of a process that serves no call.
BridgeIdle ==
    /\ bridge = "none"
    /\ openaiWs = "NONE"
    /\ twilioWs = "CLOSED"
    /\ streamSid = Null
    /\ bufferedMs = 0
    /\ lastSpeechStoppedAt = 0
    /\ responseInProgress = FALSE
    /\ outQueue = << >>
    /\ openaiReady = FALSE
    /\ gotAnyAudioDelta = FALSE
    /\ pending = << >>
    /\ nMedia = 0
    /\ nDelta = 0
    /\ sentOpenai = << >>
    /\ sentTwilio = << >>
    /\ lastEvent = Event("none", Absent)
    /\ cancelSent = FALSE
    /\ appendedMs = 0
    /\ peer = Null

bridgeVars ==
    << bridge, OPENAI_KEY, openaiWs, twilioWs, streamSid, bufferedMs,
       lastSpeechStoppedAt, responseInProgress, outQueue, openaiReady,
       gotAnyAudioDelta, pending, nMedia, nDelta, sentOpenai, sentTwilio,
       lastEvent, cancelSent, appendedMs, peer >>

\* The process after start-up, in one of the deployments.
InitHttp ==
    /\ BridgeIdle
    /\ OPENAI_KEY \in BOOLEAN
    /\ env \in Deployments
    /\ recordingStore = {}
    /\ callMetaStore = {}
    /\ inflight = {}
    /\ nTokens = 0
    /\ lastRequest = Request("none", Null, 0, Null, Null)
    /\ effects = << >>
    /\ now = HttpTickMs

Sweep ==
    /\ StoreHttp(sweep(Http, now))
    /\ lastRequest' = Request("sweep", Null, 0, Null, Null)
    /\ UNCHANGED << bridgeVars, env, now >>

Listen ==
    /\ \E token \in 1..(MaxRecordings + 1) :
         LET h == listen(Http, token)
         IN  /\ StoreHttp(h)
             /\ lastRequest' = Request("listen", Null, token, Null, h.response)
    /\ UNCHANGED << bridgeVars, env, now >>

Voice ==
    /\ \E callSid \in CallSids \cup {Null} :
         LET h == voice(Http, callSid, now)
         IN  /\ StoreHttp(h)
             /\ lastRequest' = Request("voice", Null, 0, callSid, h.response)
    /\ UNCHANGED << bridgeVars, env, now >>

DialResult ==
    /\ \E callSid \in CallSids \cup {Null},
          dialStatus \in {"completed", "no-answer", Null} :
         LET h == dialResult(Http, callSid, dialStatus)
         IN  /\ StoreHttp(h)
             /\ lastRequest' =
                  Request("dial-result", dialStatus, 0, callSid, h.response)
    /\ UNCHANGED << bridgeVars, env, now >>

\* A recording-status request; the analyses that may still succeed are
\* bounded by MaxRecordings, and a recording is not reported again while
\* its analysis runs.
RecordingStatus ==
    /\ \E secret \in {Secret, "wrong", Null},
          callSid \in CallSids \cup {Null},
          recordingSid \in RecordingSids \cup {Absent},
          status \in {"completed", "in-progress"} :
         LET req == [secret |-> secret, CallSid |-> callSid,
                     RecordingSid |-> recordingSid,
                     RecordingStatus |-> status]
             h == recordingStatus(Http, req)
         IN  /\ \A run \in inflight : run.RecordingSid # recordingSid
             /\ nTokens + Cardinality(inflight) < MaxRecordings
             /\ StoreHttp(h)
             /\ lastRequest' =
                  Request("recording-status", secret, recordingSid, callSid,
                          h.response)
    /\ UNCHANGED << bridgeVars, env, now >>

RecordingAnalysed ==
    /\ \E run \in inflight,
          result \in {"download-failed", "transcribe-failed", "AI", "Message"} :
         /\ run.pc = "analysis"
         /\ StoreHttp(recordingAnalysed(Http, run, result, now))
         /\ lastRequest' =
              Request("recording-analysed", result, run.RecordingSid,
                      run.CallSid, Null)
    /\ UNCHANGED << bridgeVars, env, now >>

EmailDone ==
    /\ \E run \in inflight :
         /\ run.pc = "email"
         /\ StoreHttp(emailDone(Http, run))
         /\ lastRequest' =
              Request("email-done", Null, run.RecordingSid, run.CallSid, Null)
    /\ UNCHANGED << bridgeVars, env, now >>

\* Time passes between two requests.
HttpTick ==
    /\ now < (MaxHttpTicks + 1) * HttpTickMs
    /\ now' = now + HttpTickMs
    /\ UNCHANGED << bridgeVars, httpVars >>

NextHttp ==
    \/ Sweep
    \/ Listen
    \/ Voice
    \/ DialResult
    \/ RecordingStatus
    \/ RecordingAnalysed
    \/ EmailDone
    \/ HttpTick

SpecHttp == InitHttp /\ [][NextHttp]_vars

\* ------------------------------- the caller audio the provider holds
\* The caller audio the provider holds uncommitted after a handler that
\* transmitted `sent`, given what it held before: every transmitted
\* input_audio_buffer.append adds one frame, a transmitted commit empties
\* the buffer (no handler appends after it commits).
Transmitted(held, sent) ==
    IF \E i \in 1..Len(sent) : sent[i].type = "input_audio_buffer.commit"
    THEN 0
    ELSE held + FRAME_MS * Cardinality({ i \in 1..Len(sent) :
                               sent[i].type = "input_audio_buffer.append" })

StoreAppends(s) ==
    /\ Store(s)
    /\ appendedMs' = Transmitted(appendedMs, s.sentOpenai)

\* The provider's turn-taking messages.
AppendsOpenaiMessages ==
    { msg \in OpenaiMessages :
        msg.type \in { "input_audio_buffer.speech_started",
                       "input_audio_buffer.speech_stopped",
                       "response.created", "response.done" } }

\* The caller's frames and the end of the stream.
AppendsTwilioMessages ==
    { msg \in TwilioMessages :
        /\ msg.streamSid = Null
        /\ \/ msg.event = "media" /\ msg.payload # Absent
           \/ msg.event = "stop" /\ msg.payload = Absent }

AppendsOpenaiOpen ==
    /\ OPENAI_KEY
    /\ openaiWs = "CONNECTING"
    /\ StoreAppends(onOpen([Session EXCEPT !.openaiWs = "OPEN"]))
    /\ lastEvent' = Event("open", Absent)
    /\ UNCHANGED << httpVars, peer, bridge, OPENAI_KEY, now, nMedia, nDelta >>

AppendsOpenaiMessage ==
    /\ OPENAI_KEY
    /\ openaiWs = "OPEN"
    /\ \E msg \in AppendsOpenaiMessages :
         /\ msg.delta = Absent
         /\ StoreAppends(onOpenaiMessage(Session, msg, now))
         /\ lastEvent' = Event(msg.type, msg.delta)
    /\ UNCHANGED << httpVars, peer, bridge, OPENAI_KEY, now, nMedia, nDelta >>

AppendsOpenaiClose ==
    /\ OPENAI_KEY
    /\ openaiWs \in {"CONNECTING", "OPEN", "CLOSING"}
    /\ StoreAppends([Session EXCEPT !.openaiWs = "CLOSED"])
    /\ lastEvent' = Event("openai.close", Absent)
    /\ UNCHANGED << httpVars, peer, bridge, OPENAI_KEY, now, nMedia, nDelta >>

AppendsTwilioMessage ==
    /\ OPENAI_KEY
    /\ twilioWs = "OPEN"
    /\ \E msg \in AppendsTwilioMessages :
         /\ StoreAppends(onTwilioMessage(Session, msg))
         /\ lastEvent' = Event(msg.event, msg.payload)
    /\ UNCHANGED << httpVars, peer, bridge, OPENAI_KEY, now, nMedia, nDelta >>

NextAppends ==
    \/ AppendsOpenaiOpen
    \/ AppendsOpenaiMessage
    \/ AppendsOpenaiClose
    \/ AppendsTwilioMessage
    \/ Tick

SpecAppends == Init /\ [][NextAppends]_vars

\* ------------------------------------------------- reading a step
\* The step ran the handler of an event of this type (Tick is the only
\* step that is not a handler, and the only one that moves the clock).
Handled(type) == now' = now /\ lastEvent'.type = type

\* A handler ran in the step.
HandlerStep == now' = now

\* How many directives of this type a handler transmitted.
Count(sent, type) == Cardinality({ i \in 1..Len(sent) : sent[i].type = type })

\* The audio payloads a handler transmitted to the telephony peer, in order.
Payloads(sent) == [ i \in 1..Len(sent) |-> sent[i].payload ]

\* The audio of the append directives a handler transmitted, in order.
Appended(sent) ==
    LET app == SelectSeq(sent, LAMBDA d : d.type = "input_audio_buffer.append")
    IN  [ i \in 1..Len(app) |-> app[i].audio ]

Cancel == Directive("response.cancel", Absent)
CommitDirective == Directive("input_audio_buffer.commit", Absent)
Create == Directive("response.create", Absent)

\* ------------------------------------------------------------- claims

\* C1: a response.create directive is transmitted only by a handler that
\* found responseInProgress false (the greeting on provider open and the
\* speech-stopped trigger alike), and a handler transmits at most one.
C1_CreateOnlyWhenIdle ==
    [][ HandlerStep /\ Count(sentOpenai', "response.create") > 0
          => /\ ~responseInProgress
             /\ Count(sentOpenai', "response.create") = 1 ]_vars

\* C1 witness: an accepted speech-stopped has requested a response.
C1_Witness ==
    /\ lastEvent.type = "input_audio_buffer.speech_stopped"
    /\ Count(sentOpenai, "response.create") = 1
    /\ responseInProgress

\* C2: no commit directive is transmitted while bufferedMs < 100, and a
\* speech-stopped event received with bufferedMs < 100 transmits nothing.
C2_NoCommitBelowThreshold ==
    [][ /\ ( HandlerStep /\ Count(sentOpenai', "input_audio_buffer.commit") > 0 )
             => bufferedMs >= MIN_COMMIT_MS
        /\ ( Handled("input_audio_buffer.speech_stopped")
               /\ bufferedMs < MIN_COMMIT_MS )
             => sentOpenai' = << >> ]_vars

\* C2 witness: a speech-stopped passed the debounce window with an idle
\* assistant and 20..80 ms buffered, and nothing was transmitted.
C2_Witness ==
    /\ lastEvent.type = "input_audio_buffer.speech_stopped"
    /\ lastSpeechStoppedAt = now
    /\ ~responseInProgress
    /\ bufferedMs > 0 /\ bufferedMs < MIN_COMMIT_MS
    /\ sentOpenai = << >>

\* C3 (as claimed): a payload-bearing media frame handled while
\* responseInProgress is true transmits exactly one response.cancel, leaves
\* the outbound queue empty and ends with responseInProgress false, also
\* after the provider connection has closed.
C3_MediaBargeInCancels ==
    [][ Handled("media") /\ lastEvent'.payload # Absent /\ responseInProgress
          => /\ Count(sentOpenai', "response.cancel") = 1
             /\ outQueue' = << >>
             /\ ~responseInProgress' ]_vars

\* C4: speech_started while responseInProgress clears the outbound queue,
\* transmits one response.cancel and sets responseInProgress false; while
\* idle it transmits nothing and changes no state.
C4_SpeechStartedBargeIn ==
    [][ Handled("input_audio_buffer.speech_started")
          => IF responseInProgress
             THEN /\ outQueue' = << >>
                  /\ sentOpenai' = << Cancel >>
                  /\ ~responseInProgress'
             ELSE /\ sentOpenai' = << >>
                  /\ sentTwilio' = << >>
                  /\ UNCHANGED << streamSid, bufferedMs, lastSpeechStoppedAt,
                                  responseInProgress, outQueue, openaiWs,
                                  twilioWs >> ]_vars

\* C4 witness: a speech_started has cancelled the response in progress.
C4_Witness ==
    /\ lastEvent.type = "input_audio_buffer.speech_started"
    /\ sentOpenai = << Cancel >>
    /\ ~responseInProgress
    /\ outQueue = << >>

\* C5: with responseInProgress false, bufferedMs >= 100 and no
\* speech-stopped accepted within the previous 400 ms, a speech-stopped
\* transmits exactly one commit then one response.create, resets bufferedMs
\* to 0 and sets responseInProgress; so does the one after 25 frames.
C5_SpeechStoppedCommits ==
    [][ ( /\ Handled("input_audio_buffer.speech_stopped")
          /\ ~responseInProgress
          /\ bufferedMs >= MIN_COMMIT_MS
          /\ now - lastSpeechStoppedAt >= DEBOUNCE_MS )
          => /\ sentOpenai' = << CommitDirective, Create >>
             /\ bufferedMs' = 0
             /\ responseInProgress' ]_vars

\* C5 witness: a speech-stopped has committed the caller's turn.
C5_Witness ==
    /\ lastEvent.type = "input_audio_buffer.speech_stopped"
    /\ sentOpenai = << CommitDirective, Create >>
    /\ bufferedMs = 0
    /\ lastSpeechStoppedAt = now

\* C6: a speech-stopped that fails one of the three guards transmits
\* nothing and leaves responseInProgress, bufferedMs and the outbound queue
\* unchanged.
C6_RejectedSpeechStoppedIsNoOp ==
    [][ ( /\ Handled("input_audio_buffer.speech_stopped")
          /\ \/ responseInProgress
             \/ now - lastSpeechStoppedAt < DEBOUNCE_MS
             \/ bufferedMs < MIN_COMMIT_MS )
          => /\ sentOpenai' = << >>
             /\ sentTwilio' = << >>
             /\ UNCHANGED << responseInProgress, bufferedMs, outQueue >> ]_vars

\* C6 witness: a speech-stopped was suppressed by the debounce window alone
\* (the assistant is idle and enough audio is buffered).
C6_Witness ==
    /\ lastEvent.type = "input_audio_buffer.speech_stopped"
    /\ now - lastSpeechStoppedAt < DEBOUNCE_MS
    /\ ~responseInProgress
    /\ bufferedMs >= MIN_COMMIT_MS
    /\ sentOpenai = << >>

\* C7 (as claimed): every media envelope transmitted to the telephony peer
\* carries a non-null streamSid, also when the start event carries none.
C7_NoEnvelopeWithoutStreamSid ==
    \A i \in 1..Len(sentTwilio) : sentTwilio[i].streamSid # Null

\* C8 (as claimed): a media frame that arrives before the provider
\* connection is ready is not transmitted then and is not lost: it is held
\* in the pending inbound queue.
C8_FrameBeforeReadyIsHeld ==
    ( /\ lastEvent.type = "media" /\ lastEvent.payload # Absent
      /\ openaiWs = "CONNECTING" )
      => /\ sentOpenai = << >>
         /\ \E i \in 1..Len(pending) : pending[i].audio = lastEvent.payload

\* The frames the barge-in bridge received before the provider opened:
\* nothing is committed before then, so bufferedMs counts them all.
FramesBeforeReady == [ i \in 1..(bufferedMs \div FRAME_MS) |-> i ]

\* C9 (as claimed): when the provider becomes ready, the frames that
\* arrived before are all transmitted, in arrival order.
C9_FramesBeforeReadyForwardedInOrder ==
    lastEvent.type = "open" => Appended(sentOpenai) = FramesBeforeReady

\* Pending-queue bridge: a frame that arrives before the provider is ready
\* is not transmitted and is held in `pending`.
PendingHoldsFrameBeforeReady ==
    ( /\ lastEvent.type = "media" /\ lastEvent.payload # Absent
      /\ ~openaiReady )
      => /\ sentOpenai = << >>
         /\ pending[Len(pending)].audio = lastEvent.payload

\* Pending-queue bridge: the open handler transmits the configuration, then
\* every frame received so far in arrival order, then the greeting request.
PendingDrainsInOrder ==
    ( lastEvent.type = "open" /\ nMedia <= MAX_PENDING )
      => /\ sentOpenai[1].type = "session.update"
         /\ Appended(sentOpenai) = [ i \in 1..nMedia |-> i ]
         /\ pending = << >>

\* C10: a start event transmits every queued delta to the telephony peer in
\* arrival order and leaves the queue empty; the queue is in arrival order;
\* a delta that arrives later is transmitted only when nothing is queued.
C10_QueuedDeltasFlushedInOrder ==
    /\ [][ Handled("start")
             => /\ Payloads(sentTwilio') = outQueue
                /\ outQueue' = << >> ]_vars
    /\ [][ HandlerStep /\ lastEvent'.type \in DeltaTypes /\ sentTwilio' # << >>
             => /\ outQueue = << >>
                /\ Payloads(sentTwilio') = << lastEvent'.payload >> ]_vars
    /\ [](\A i, j \in 1..Len(outQueue) : i < j => outQueue[i] < outQueue[j])

\* C10 witness: a start event has flushed two queued deltas, oldest first.
C10_Witness ==
    /\ lastEvent.type = "start"
    /\ Payloads(sentTwilio) = << 1, 2 >>
    /\ outQueue = << >>

\* C11: after every handler the outbound queue holds at most 300 frames
\* and the pending inbound queue at most 200; a frame enqueued into a full
\* queue evicts exactly the oldest one; each queue holds the most recent
\* frames in arrival order.
C11_QueuesBoundedDropOldest ==
    /\ [](Len(outQueue) <= MAX_OUT_QUEUE /\ Len(pending) <= MAX_PENDING)
    /\ [][ ( /\ bridge = "barge-in"
             /\ HandlerStep /\ lastEvent'.type \in DeltaTypes
             /\ lastEvent'.payload # Absent /\ streamSid = Null )
             => outQueue' =
                  IF Len(outQueue) = MAX_OUT_QUEUE
                  THEN Append(Tail(outQueue), lastEvent'.payload)
                  ELSE Append(outQueue, lastEvent'.payload) ]_vars
    /\ [][ ( /\ bridge = "pending-queue"
             /\ Handled("media") /\ lastEvent'.payload # Absent
             /\ ~openaiReady )
             => pending' =
                  LET evt == Directive("input_audio_buffer.append",
                                       lastEvent'.payload)
                  IN  IF Len(pending) = MAX_PENDING
                      THEN Append(Tail(pending), evt)
                      ELSE Append(pending, evt) ]_vars
    /\ [](\A i \in 1..Len(outQueue) :
              outQueue[i] = nDelta - Len(outQueue) + i)
    /\ [](\A i \in 1..Len(pending) :
              pending[i].audio = nMedia - Len(pending) + i)

\* C11 witness: a delta was enqueued into the full outbound queue: the
\* queue is at its capacity and its oldest deltas are gone.
C11_Witness ==
    /\ bridge = "barge-in"
    /\ Len(outQueue) = MAX_OUT_QUEUE
    /\ outQueue[1] = QueueSlack + 1
    /\ nDelta = MAX_OUT_QUEUE + QueueSlack

\* The same in the pending-queue bridge.
PendingOverflowReached ==
    /\ bridge = "pending-queue"
    /\ Len(pending) = MAX_PENDING
    /\ pending[1].audio = QueueSlack + 1

\* The fields of the session a handler may change, the logs of what it
\* transmitted excluded.
SessionState ==
    << openaiWs, twilioWs, streamSid, bufferedMs, lastSpeechStoppedAt,
       responseInProgress, outQueue, openaiReady, gotAnyAudioDelta, pending >>

Closing == {"CLOSING", "CLOSED"}

\* C12: after the handler of a telephony stop event, or of a close or error
\* of the telephony connection, neither connection is open or connecting;
\* a connection that was closed is never reopened; running the cleanup
\* again changes nothing (the close event that follows a stop only records
\* that the telephony transport is closed).
C12_TelephonyEndClosesBoth ==
    /\ [][ ( /\ HandlerStep
             /\ lastEvent'.type \in {"stop", "twilio.close", "twilio.error"} )
             => /\ openaiWs' \notin {"CONNECTING", "OPEN"}
                /\ twilioWs' \notin {"CONNECTING", "OPEN"}
                /\ cleanup(Session') = Session' ]_vars
    /\ [][ /\ openaiWs \in Closing => openaiWs' \in Closing
           /\ twilioWs \in Closing => twilioWs' \in Closing ]_vars
    /\ [][ ( /\ Handled("twilio.close")
             /\ openaiWs \in Closing /\ twilioWs \in Closing )
             => /\ UNCHANGED << openaiWs, streamSid, bufferedMs,
                                lastSpeechStoppedAt, responseInProgress,
                                outQueue >>
                /\ sentOpenai' = << >> /\ sentTwilio' = << >> ]_vars

\* C12 witness: the close event that followed a stop during the greeting:
\* the provider connection, open before the stop, is closing.
C12_Witness ==
    /\ lastEvent.type = "twilio.close"
    /\ openaiWs = "CLOSING"
    /\ twilioWs = "CLOSED"
    /\ responseInProgress
    /\ streamSid # Null

\* C13: the handler of a transport-level close or error of the provider
\* connection tears the call down: after it the telephony connection is
\* no longer open.
C13_ProviderEndClosesTelephony ==
    [][ Handled("openai.close") => twilioWs' # "OPEN" ]_vars

\* C14: without the provider credential the telephony connection is closed
\* at once, no provider connection exists, and nothing is ever sent, queued
\* or changed for that connection.
C14_NoCredentialNoProvider ==
    ~OPENAI_KEY =>
        /\ openaiWs = "NONE"
        /\ twilioWs \in Closing
        /\ sentOpenai = << >> /\ sentTwilio = << >>
        /\ streamSid = Null /\ bufferedMs = 0 /\ ~responseInProgress
        /\ outQueue = << >> /\ pending = << >> /\ ~openaiReady

\* The barge-in bridge checks the credential before it creates the provider
\* connection (holds under Spec).
BargeInChecksCredential ==
    bridge = "barge-in" => C14_NoCredentialNoProvider

\* C15: a provider message tagged error transmits nothing, closes neither
\* connection and leaves the session state unchanged, so that the next
\* provider event is handled from the same state.
C15_ProviderErrorIsNotFatal ==
    [][ Handled("error")
          => /\ sentOpenai' = << >> /\ sentTwilio' = << >>
             /\ UNCHANGED SessionState ]_vars

\* C15 witness: an error message handled during a response, with deltas
\* queued and both connections open.
C15_Witness ==
    /\ lastEvent.type = "error"
    /\ openaiWs = "OPEN" /\ twilioWs = "OPEN"
    /\ responseInProgress
    /\ outQueue # << >>

\* C16: a message that cannot be parsed or carries no recognized tag, on
\* either connection, transmits nothing, closes neither connection and
\* leaves the session state unchanged.
C16_BadMessageIsDiscarded ==
    [][ ( /\ HandlerStep
          /\ lastEvent'.type \in {"malformed", "json-null", "mark",
                                  "session.updated"} )
          => /\ sentOpenai' = << >> /\ sentTwilio' = << >>
             /\ UNCHANGED SessionState ]_vars

\* Text that JSON.parse rejects, and objects with an unknown tag, are
\* discarded (holds under Spec).
UnparseableOrUnknownIsDiscarded ==
    [][ ( /\ HandlerStep
          /\ lastEvent'.type \in {"malformed", "mark", "session.updated"} )
          => /\ sentOpenai' = << >> /\ sentTwilio' = << >>
             /\ UNCHANGED SessionState ]_vars

C18_BargeInCancelsBeforeFurtherAudio ==
    /\ [][ ( /\ HandlerStep
             /\ responseInProgress
             /\ \/ lastEvent'.type = "input_audio_buffer.speech_started"
                \/ lastEvent'.type = "media" /\ lastEvent'.payload # Absent )
             => /\ outQueue' = << >>
                /\ sentTwilio' = << >>
                /\ openaiWs = "OPEN"
                     => /\ sentOpenai' # << >>
                        /\ Head(sentOpenai') = Cancel
                        /\ Count(sentOpenai', "response.cancel") = 1 ]_vars
    /\ [][ ( HandlerStep /\ lastEvent'.type \in DeltaTypes )
             => openaiWs = "OPEN" ]_vars
    /\ [][ (openaiWs \in Closing) => (openaiWs' \in Closing) ]_vars
    /\ [](responseInProgress => openaiWs \in {"OPEN"} \cup Closing)

\* C18 witness: speech-started arrived during the greeting while its
\* deltas were queued: the queue is empty and the cancel was transmitted.
C18_Witness ==
    /\ lastEvent.type = "input_audio_buffer.speech_started"
    /\ sentOpenai = << Cancel >>
    /\ outQueue = << >>
    /\ nDelta > 0
    /\ streamSid = Null

\* C19: response.created sets responseInProgress, response.done clears it,
\* whatever it was; neither transmits anything nor changes anything else.
C19_ResponseLifecycleFlag ==
    [][ /\ Handled("response.created") => responseInProgress'
        /\ Handled("response.done") => ~responseInProgress'
        /\ ( Handled("response.created") \/ Handled("response.done") )
             => /\ sentOpenai' = << >> /\ sentTwilio' = << >>
                /\ UNCHANGED << openaiWs, twilioWs, streamSid, bufferedMs,
                                lastSpeechStoppedAt, outQueue, pending >> ]_vars

\* C19 witness: response.done ended a response with deltas queued and
\* caller audio buffered.
C19_Witness ==
    /\ lastEvent.type = "response.done"
    /\ ~responseInProgress
    /\ outQueue # << >>
    /\ bufferedMs > 0

\* C20: a media event without an audio payload transmits nothing and
\* changes nothing, also while a response is in progress.
C20_MediaWithoutPayloadIgnored ==
    [][ ( Handled("media") /\ lastEvent'.payload = Absent )
          => /\ sentOpenai' = << >> /\ sentTwilio' = << >>
             /\ UNCHANGED SessionState ]_vars

\* C20 witness: an empty media event handled during a response on open
\* connections.
C20_Witness ==
    /\ lastEvent = Event("media", Absent)
    /\ responseInProgress
    /\ openaiWs = "OPEN" /\ twilioWs = "OPEN"
    /\ outQueue # << >>
    /\ sentOpenai = << >>

\* The handler that ran was given a caller media frame with audio.
PayloadMedia == Handled("media") /\ lastEvent'.payload # Absent

\* The handler that ran is a barge-in: speech-started, or a caller frame
\* with audio, during a response.
BargeIn ==
    /\ HandlerStep
    /\ responseInProgress
    /\ \/ lastEvent'.type = "input_audio_buffer.speech_started"
       \/ lastEvent'.type = "media" /\ lastEvent'.payload # Absent

TurnDirectives ==
    {"input_audio_buffer.commit", "response.create", "response.cancel"}

\* C21: bufferedMs starts at 0, grows by exactly 20 with every media frame
\* that carries audio, is reset to 0 by every handler that transmits a
\* commit, and is left alone by every other handler (barge-in and
\* response.done included): it is 20 times the number of such frames since
\* the last commit.
C21_BufferedMsCountsFramesSinceCommit ==
    /\ [][ /\ PayloadMedia => bufferedMs' = bufferedMs + FRAME_MS
           /\ ( HandlerStep /\ Count(sentOpenai', "input_audio_buffer.commit") > 0 )
                => bufferedMs' = 0
           /\ ( /\ HandlerStep /\ ~PayloadMedia
                /\ Count(sentOpenai', "input_audio_buffer.commit") = 0 )
                => bufferedMs' = bufferedMs ]_vars
    /\ [](bufferedMs >= 0 /\ bufferedMs % FRAME_MS = 0)
    /\ (lastEvent.type = "connection" => bufferedMs = 0)

\* C21 witness: the third frame of a turn interrupted a response: the
\* cancel was transmitted and the three frames are still counted.
C21_Witness ==
    /\ lastEvent = Event("media", 3)
    /\ sentOpenai = << Cancel, Directive("input_audio_buffer.append", 3) >>
    /\ bufferedMs = 3 * FRAME_MS

\* C22: a handler transmits on a connection only if the connection is
\* open; a send on a connecting, closing or closed connection returns
\* what was transmitted before it, and neither queue grows by it.
C22_NoSendOnNonOpenConnection ==
    /\ [][ HandlerStep
             => /\ sentOpenai' # << >> => openaiWs' = "OPEN"
                /\ sentTwilio' # << >> => twilioWs' = "OPEN" ]_vars
    /\ [][ ( PayloadMedia /\ openaiWs # "OPEN" )
             => /\ sentOpenai' = << >>
                /\ pending' = pending
                /\ Len(outQueue') <= Len(outQueue) ]_vars
    /\ [](\A rs \in ReadyStates \ {"OPEN"} :
              /\ wsSend(rs, sentOpenai, Cancel) = sentOpenai
              /\ safeSend(rs, sentOpenai, Cancel) = sentOpenai)

\* C22 witness: a caller frame with audio was handled during a response
\* after the provider connection had closed: nothing was transmitted.
C22_Witness ==
    /\ lastEvent.type = "media" /\ lastEvent.payload # Absent
    /\ openaiWs = "CLOSED"
    /\ twilioWs = "OPEN"
    /\ sentOpenai = << >>
    /\ bufferedMs > 0

\* C24: response.create is transmitted only by the open handler and by
\* speech-stopped, commit only by speech-stopped, response.cancel only by
\* a barge-in; every commit is directly followed by response.create; the
\* start, stop and delta handlers transmit none of the three.
C24_OnlyTurnTakingEmitsDirectives ==
    [][ HandlerStep
          => /\ Count(sentOpenai', "response.create") > 0
                  => lastEvent'.type \in
                       {"open", "input_audio_buffer.speech_stopped"}
             /\ Count(sentOpenai', "input_audio_buffer.commit") > 0
                  => lastEvent'.type = "input_audio_buffer.speech_stopped"
             /\ Count(sentOpenai', "response.cancel") > 0 => BargeIn
             /\ \A i \in 1..Len(sentOpenai') :
                  sentOpenai'[i] = CommitDirective
                    => /\ i < Len(sentOpenai')
                       /\ sentOpenai'[i + 1] = Create
             /\ lastEvent'.type \in {"start", "stop"} \cup DeltaTypes
                  => \A i \in 1..Len(sentOpenai') :
                       sentOpenai'[i].type \notin TurnDirectives ]_vars

\* C24 witness: a speech-stopped committed the caller's turn after the
\* telephony stream had started.
C24_Witness ==
    /\ lastEvent.type = "input_audio_buffer.speech_stopped"
    /\ sentOpenai = << CommitDirective, Create >>
    /\ responseInProgress
    /\ streamSid # Null

\* C28: a known streamSid never reverts to absent.
C28_StreamSidNeverReverts ==
    [][ (streamSid # Null) => (streamSid' # Null) ]_vars

\* C29: the outbound queue is non-empty only while streamSid is absent; a
\* barge-in while the stream identity is known finds the queue empty, and
\* a barge-in that discards queued audio happens while it is absent.
C29_QueueOnlyWhileStreamSidAbsent ==
    /\ [](outQueue # << >> => streamSid = Null)
    /\ [][ BargeIn
             => /\ streamSid # Null => outQueue = << >> /\ outQueue' = << >>
                /\ outQueue # << >> => streamSid = Null /\ outQueue' = << >> ]_vars

\* C29 witness: a barge-in after the stream identity became known, with
\* deltas received before it: the cancel was transmitted, no audio removed.
C29_Witness ==
    /\ lastEvent.type = "input_audio_buffer.speech_started"
    /\ sentOpenai = << Cancel >>
    /\ streamSid # Null
    /\ nDelta > 0
    /\ outQueue = << >>

\* C30: after a caller media frame with audio is handled,
\* responseInProgress is false, the greeting included.
C30_NoResponseAcrossCallerFrame ==
    [][ PayloadMedia => ~responseInProgress' ]_vars

\* C30 witness: the caller's first frame arrived during the greeting,
\* before any speech-started or delta.
C30_Witness ==
    /\ lastEvent = Event("media", 1)
    /\ sentOpenai = << Cancel, Directive("input_audio_buffer.append", 1) >>
    /\ ~responseInProgress
    /\ nDelta = 0
    /\ lastSpeechStoppedAt = 0

\* The handler that ran was given a non-empty audio delta.
AudioDelta ==
    HandlerStep /\ lastEvent'.type \in DeltaTypes /\ lastEvent'.payload # Absent

\* C25: an audio delta, and so a delta that trails a response.cancel, is
\* forwarded when the stream identity is known and queued otherwise; its
\* handler transmits nothing to the provider (no further cancel) and
\* leaves responseInProgress and the rest of the session unchanged.
C25_TrailingDeltaTolerated ==
    [][ AudioDelta
          => /\ sentOpenai' = << >>
             /\ UNCHANGED << responseInProgress, openaiWs, twilioWs, streamSid,
                             bufferedMs, lastSpeechStoppedAt, pending >>
             /\ IF streamSid = Null
                THEN /\ sentTwilio' = << >>
                     /\ outQueue' =
                          IF Len(outQueue) = MAX_OUT_QUEUE
                          THEN Append(Tail(outQueue), lastEvent'.payload)
                          ELSE Append(outQueue, lastEvent'.payload)
                ELSE /\ outQueue' = outQueue
                     /\ sentTwilio' =
                          IF twilioWs = "OPEN"
                          THEN << Media(streamSid, lastEvent'.payload) >>
                          ELSE << >> ]_vars

\* C25 witness: a delta arrived after a response.cancel had been
\* transmitted and before any new response: it was forwarded.
C25_Witness ==
    /\ lastEvent.type \in DeltaTypes /\ lastEvent.payload # Absent
    /\ cancelSent
    /\ ~responseInProgress
    /\ sentTwilio = << Media(streamSid, lastEvent.payload) >>
    /\ sentOpenai = << >>

\* The route, continuation or sweep that ran.
RequestHandled(route) == now' = now /\ lastRequest'.route = route

\* C26: a recording-status request whose secret differs from the
\* configured one, or any such request when no secret is configured,
\* starts no download, adds nothing to recordingStore, changes nothing in
\* callMetaStore and starts no pipeline run, hence no email; outbound
\* requests are started only by a request with the configured secret and
\* by the continuations of its run.
C26_BadSecretHasNoEffect ==
    /\ [][ ( /\ RequestHandled("recording-status")
             /\ \/ env.RECORDING_WEBHOOK_SECRET = Null
                \/ lastRequest'.arg # env.RECORDING_WEBHOOK_SECRET )
             => /\ effects' = << >>
                /\ UNCHANGED << recordingStore, callMetaStore, inflight,
                                nTokens >> ]_vars
    /\ [][ ( now' = now /\ effects' # << >> )
             => \/ /\ lastRequest'.route = "recording-status"
                   /\ lastRequest'.arg = Secret
                   /\ env.RECORDING_WEBHOOK_SECRET = Secret
                \/ /\ lastRequest'.route = "recording-analysed"
                   /\ inflight # {} ]_vars

\* C26 witness: in the complete deployment, with the call's meta stored,
\* a completed recording was reported with a wrong secret.
C26_Witness ==
    /\ lastRequest.route = "recording-status"
    /\ lastRequest.arg = "wrong"
    /\ lastRequest.id \in RecordingSids
    /\ env = FullEnv /\ OPENAI_KEY
    /\ callMetaStore # {}
    /\ effects = << >> /\ inflight = {} /\ recordingStore = {}

\* C27: right after a sweep no recording is older than RECORDING_TTL_MS
\* and no call meta older than CALLMETA_TTL_MS; the sweep removes no
\* recording younger than its TTL; /listen answers 404 for a token that
\* is not in the store.
C27_SweepExpiresOnlyOldEntries ==
    /\ [][ RequestHandled("sweep")
             => /\ \A item \in recordingStore' :
                     now - item.createdAt <= RECORDING_TTL_MS
                /\ \A meta \in callMetaStore' :
                     /\ meta.receivedAtMs # Absent
                     /\ now - meta.receivedAtMs <= CALLMETA_TTL_MS
                /\ \A item \in recordingStore :
                     now - item.createdAt < RECORDING_TTL_MS
                       => item \in recordingStore' ]_vars
    /\ [][ ( /\ RequestHandled("listen")
             /\ ~\E item \in recordingStore : item.token = lastRequest'.id )
             => /\ lastRequest'.response = "404"
                /\ recordingStore' = recordingStore ]_vars

\* C27 witness: a sweep removed the recording that had outlived its TTL.
C27_Witness ==
    /\ lastRequest.route = "sweep"
    /\ nTokens = 1
    /\ recordingStore = {}
    /\ now > HttpTickMs + RECORDING_TTL_MS

\* A sweep kept a recording whose age is the TTL exactly (reachable).
SweepKeptRecordingAtTtl ==
    /\ lastRequest.route = "sweep"
    /\ \E item \in recordingStore : now - item.createdAt = RECORDING_TTL_MS

\* C23: a handler of one call leaves every field and queue of the other
\* call's closure unchanged and transmits nothing on the other call's
\* connections, in every interleaving of the two calls' events.
C23_CallsAreIndependent ==
    [][ /\ lastEvent'.payload = 1 => peer' = PeerSession
        /\ lastEvent'.payload = 2
             => /\ UNCHANGED SessionState
                /\ sentOpenai' = << >> /\ sentTwilio' = << >> ]_vars

\* A handler that returns leaves the other call alone: the closures share
\* no variable (holds under SpecTwoCalls).
CallsShareNoVariable ==
    [][ /\ lastEvent' = Event("call", 1) => peer' = PeerSession
        /\ lastEvent' = Event("call", 2)
             => /\ UNCHANGED SessionState
                /\ sentOpenai' = << >> /\ sentTwilio' = << >> ]_vars

\* The second call's caller interrupted its greeting while the first
\* call's greeting was in progress with a delta queued (reachable).
CallsInterleave ==
    /\ lastEvent = Event("call", 2)
    /\ peer.sentOpenai =
         << Cancel, Directive("input_audio_buffer.append", 1) >>
    /\ ~peer.responseInProgress
    /\ responseInProgress
    /\ outQueue # << >>

\* ------------------------------------------------------------ C31..C36
\* C31: lastSpeechStoppedAt is assigned by exactly the speech-stopped
\* events that arrive at least 400 ms after its current value, whether or
\* not they commit: an event inside the window leaves it unchanged (the
\* window does not slide) and transmits nothing even when the assistant is
\* idle and enough audio is buffered; an event outside the window takes the
\* current time, also when it is rejected because a response is in progress
\* or too little audio is buffered; no other handler assigns it.
C31_DebounceStampSetOutsideWindowOnly ==
    [][ /\ Handled("input_audio_buffer.speech_stopped")
          => /\ now - lastSpeechStoppedAt >= DEBOUNCE_MS
                  => lastSpeechStoppedAt' = now
             /\ now - lastSpeechStoppedAt < DEBOUNCE_MS
                  => /\ lastSpeechStoppedAt' = lastSpeechStoppedAt
                     /\ sentOpenai' = << >>
                     /\ UNCHANGED << responseInProgress, bufferedMs >>
        /\ ~Handled("input_audio_buffer.speech_stopped")
          => lastSpeechStoppedAt' = lastSpeechStoppedAt ]_vars

\* C31 witness: a speech-stopped that arrived while a response was in
\* progress, after the first instant of the call, left the timestamp at the
\* current time without committing.
C31_Witness ==
    /\ lastEvent.type = "input_audio_buffer.speech_stopped"
    /\ now > StartTime
    /\ lastSpeechStoppedAt = now
    /\ responseInProgress
    /\ bufferedMs >= MIN_COMMIT_MS
    /\ sentOpenai = << >>

\* C31, the boundary: a speech-stopped arriving exactly 400 ms after the
\* timestamp of a rejected one is outside the window and commits (reachable).
C31_CommitAtWindowEnd ==
    /\ lastEvent.type = "input_audio_buffer.speech_stopped"
    /\ now = StartTime + DEBOUNCE_MS
    /\ lastSpeechStoppedAt = now
    /\ sentOpenai = << CommitDirective, Create >>

\* The handler transmitted a commit directive.
CommitSent ==
    /\ HandlerStep
    /\ \E i \in 1..Len(sentOpenai') : sentOpenai'[i] = CommitDirective

\* C32 (as claimed): whenever a commit is transmitted, at least 100 ms of
\* caller audio (5 appends) has been transmitted to the provider since the
\* previous commit or the start of the session; bufferedMs counts only
\* frames that were transmitted, never one that wsSend discarded.
C32_CommitCoversTransmittedAudio ==
    [][ /\ CommitSent => appendedMs >= MIN_COMMIT_MS
        /\ bufferedMs' = appendedMs' ]_vars

\* C32, the first half alone (violated under SpecAppends: frames that
\* arrive while the provider connection is CONNECTING are counted and
\* discarded, and the first commit after the greeting relies on them).
CommitAfterFiveAppends ==
    [][ CommitSent => appendedMs >= MIN_COMMIT_MS ]_vars

\* The estimate never falls below what the provider holds: every
\* transmitted frame is counted (holds under SpecAppends).
BufferedMsCoversTransmitted == appendedMs <= bufferedMs

\* The handler transmitted a response.cancel directive.
CancelSent ==
    /\ HandlerStep
    /\ \E i \in 1..Len(sentOpenai') : sentOpenai'[i] = Cancel

\* C33: a response.cancel is transmitted only by a handler that found
\* responseInProgress true, never from the idle state; the handler sends
\* one cancel and leaves the flag false, and the flag becomes true again
\* only by the provider's open, a response.created or an accepted
\* speech-stopped, so one of these lies between two consecutive cancels.
C33_CancelOnlyWhileResponseInProgress ==
    [][ /\ CancelSent
          => /\ responseInProgress
             /\ ~responseInProgress'
             /\ Count(sentOpenai', "response.cancel") = 1
        /\ (~responseInProgress /\ responseInProgress')
          => \/ Handled("open")
             \/ Handled("response.created")
             \/ /\ Handled("input_audio_buffer.speech_stopped")
                /\ sentOpenai' = << CommitDirective, Create >> ]_vars

\* C33 witness: a caller frame arrived while a response was in progress
\* on an open provider connection: one cancel went out, before the frame,
\* and the flag is false.
C33_Witness ==
    /\ lastEvent.type = "media"
    /\ sentOpenai =
         << Cancel, Directive("input_audio_buffer.append", lastEvent.payload) >>
    /\ ~responseInProgress
    /\ cancelSent

\* The handler transmitted this directive.
Sent(directive) ==
    \E i \in 1..Len(sentOpenai') : sentOpenai'[i] = directive

\* The open handler or the speech-stopped branch set responseInProgress
\* or emptied bufferedMs (response.created sets the flag on the provider's
\* word and has no directive of its own).
TurnTakingUpdate ==
    /\ Handled("open") \/ Handled("input_audio_buffer.speech_stopped")
    /\ \/ ~responseInProgress /\ responseInProgress'
       \/ bufferedMs > 0 /\ bufferedMs' = 0

\* A barge-in (speech-started or caller frame) cleared responseInProgress.
BargeInUpdate ==
    /\ Handled("input_audio_buffer.speech_started") \/ Handled("media")
    /\ responseInProgress /\ ~responseInProgress'

\* C34 (as claimed): local turn state changes only together with a
\* transmitted directive: a transition that sets responseInProgress or
\* resets bufferedMs transmitted its response.create (and commit), and a
\* barge-in that clears responseInProgress transmitted its response.cancel.
C34_StateChangesOnlyWithDirective ==
    [][ /\ TurnTakingUpdate
          => /\ Sent(Create)
             /\ Handled("input_audio_buffer.speech_stopped")
                  => Sent(CommitDirective)
        /\ BargeInUpdate => Sent(Cancel) ]_vars

\* C34, the commit half (holds under Spec): the open handler and the
\* speech-stopped branch run on an open provider connection.
TurnTakingUpdateIsTransmitted ==
    [][ TurnTakingUpdate
          => /\ Sent(Create)
             /\ Handled("input_audio_buffer.speech_stopped")
                  => Sent(CommitDirective) ]_vars

\* C34, the barge-in half fails on caller frames alone: a speech-started
\* arrives on an open provider connection and its cancel is transmitted
\* (holds under Spec).
SpeechStartedBargeInIsTransmitted ==
    [][ (BargeInUpdate /\ Handled("input_audio_buffer.speech_started"))
          => Sent(Cancel) ]_vars

\* C35: the dial-result webhook answers with the hang-up when
\* DialCallStatus is completed, and with the media-stream instruction for
\* every other status (also a missing one), whether or not the call is
\* known to callMetaStore.
C35_DialResultRoutesUnansweredToStream ==
    lastRequest.route = "dial-result"
      => /\ lastRequest.arg = "completed" => lastRequest.response = "hangup"
         /\ lastRequest.arg # "completed" => lastRequest.response = "stream"

\* C35 witness: an unanswered dial of a call that /voice recorded was
\* routed to the media stream, and the call is still marked AI.
C35_Witness ==
    /\ lastRequest.route = "dial-result"
    /\ lastRequest.arg = "no-answer"
    /\ lastRequest.response = "stream"
    /\ \E meta \in callMetaStore :
         meta.callSid = lastRequest.callSid /\ meta.answeredType = "AI"

\* C35: an answered dial ended the call (reachable).
C35_AnsweredHangsUp ==
    /\ lastRequest.route = "dial-result"
    /\ lastRequest.arg = "completed"
    /\ lastRequest.response = "hangup"

\* The recording-status processing reached its classification outcome.
Classified ==
    /\ RequestHandled("recording-analysed")
    /\ lastRequest'.arg \in {"AI", "Message"}

\* callMetaStore marks the call as answered by the landline.
MarkedAnswered(store, callSid) ==
    \E meta \in store : meta.callSid = callSid /\ meta.answeredType = "Answered"

\* C36: the recording-status processing leaves every entry marked Answered
\* as it is, whatever the classification; for a call that is not marked
\* Answered (known to callMetaStore or not) it stores Message when the
\* classification outcome is Message and AI otherwise; only a completed
\* dial result marks a call Answered.
C36_AnsweredTypeKeptOrClassified ==
    [][ /\ RequestHandled("recording-analysed")
          => \A meta \in callMetaStore :
               meta.answeredType = "Answered" => meta \in callMetaStore'
        /\ (Classified /\ ~MarkedAnswered(callMetaStore, lastRequest'.callSid))
          => \A meta \in callMetaStore' :
               meta.callSid = lastRequest'.callSid
                 => meta.answeredType = lastRequest'.arg
        /\ Classified => metaHas(callMetaStore', lastRequest'.callSid)
        /\ \A callSid \in CallSids :
             ( /\ ~MarkedAnswered(callMetaStore, callSid)
               /\ MarkedAnswered(callMetaStore', callSid) )
               => /\ RequestHandled("dial-result")
                  /\ lastRequest'.arg = "completed" ]_vars

\* C36 witness: the recording of a call the landline answered was
\* classified as Message and the call is still marked Answered.
C36_Witness ==
    /\ lastRequest.route = "recording-analysed"
    /\ lastRequest.arg = "Message"
    /\ MarkedAnswered(callMetaStore, lastRequest.callSid)

\* C36: the recording of a call that was not answered was classified as
\* Message and the call is marked Message (reachable).
C36_MessageStored ==
    /\ lastRequest.route = "recording-analysed"
    /\ lastRequest.arg = "Message"
    /\ \E meta \in callMetaStore :
         meta.callSid = lastRequest.callSid /\ meta.answeredType = "Message"

====
